---- MODULE Spec2Model ----
(***************************************************************************)
(* Model of the streaming conversation scheduler of WatchGame.tsx:         *)
(* the request loop (startOrchestratorRequest), one request cycle          *)
(* (callOrchestrator: fetch, stream decoding, line parsing, display        *)
(* pacing), user input (handleSendMessage) and the team resolver.          *)
(*                                                                         *)
(* Strings that the code inspects character by character (team labels,     *)
(* stream bytes) are sequences of one-character tokens; Hangul syllables   *)
(* are written as tokens "h_..." and the newline as "NL".  Strings the     *)
(* code only copies or measures (speaker, text) are TLA+ strings.          *)
(***************************************************************************)
EXTENDS Integers, Sequences, FiniteSets, TLC

\* ------------------------------------------------------------------------
\* Program constants
\* ------------------------------------------------------------------------
minInterval == 3500
maxInterval == 4500
avgTextLength == 100
FIXED_PERIOD == 15000

\* ------------------------------------------------------------------------
\* Bounds of the model
\* ------------------------------------------------------------------------
MaxRequests == 2
MaxSends == 1
MaxChunks == 2

\* granularity of the clock: the step between the pacing targets considered
TickMs == (maxInterval - minInterval) \div 2
\* Date.now() at mount (positive: 0 is the pacer's "unset"), and the horizon
\* past which the clock does not advance
StartTime == 2 * FIXED_PERIOD
MaxTime == StartTime + FIXED_PERIOD + maxInterval + TickMs

\* ------------------------------------------------------------------------
\* Characters and team labels
\* ------------------------------------------------------------------------
Null == <<"~null">>

LowerLetters == {"a","b","c","d","e","f","g","h","i","j","k","l","m",
                 "n","o","p","q","r","s","t","u","v","w","x","y","z"}
Digits == {"0","1","2","3","4","5","6","7","8","9"}
Hangul == {"h_sam","h_seong","h_ra","h_i","h_on","h_jeu","h_ta","h_geo",
           "h_teu","h_win","h_seu","h_du","h_san","h_be","h_eo","h_raen",
           "h_deo","h_da","h_no","h_han","h_hwa","h_geul","h_rot","h_de",
           "h_ja","h_eon","h_ki","h_um","h_hi","h_ro"}
WhiteSpace == {" "}

\* String.prototype.toLowerCase on one character
UpperLetters == <<"A","B","C","D","E","F","G","H","I","J","K","L","M",
                  "N","O","P","Q","R","S","T","U","V","W","X","Y","Z">>
LowerOfUpper == <<"a","b","c","d","e","f","g","h","i","j","k","l","m",
                  "n","o","p","q","r","s","t","u","v","w","x","y","z">>

\* mutant: the case of the letters is kept
toLowerCaseKept(c) == c

toLowerCase(c) ==
    IF \E i \in 1..26 : UpperLetters[i] = c
    THEN LowerOfUpper[CHOOSE i \in 1..26 : UpperLetters[i] = c]
    ELSE c

\* the characters of s that are in keep, in order
FilterChars(s, keep) == SelectSeq(s, LAMBDA c : c \in keep)

\* value.toLowerCase().replace(/[^a-z0-9<Hangul>]/g, "") ; "" for null/empty
normalizeTeamKey(value) ==
    IF value = Null \/ value = <<>> THEN <<>>
    ELSE FilterChars([i \in 1..Len(value) |-> toLowerCase(value[i])],
                     LowerLetters \cup Digits \cup Hangul)

\* s.replace(/\s+/g, "")
StripSpaces(s) == SelectSeq(s, LAMBDA c : c \notin WhiteSpace)

startsWith(s, p) == Len(p) <= Len(s) /\ SubSeq(s, 1, Len(p)) = p
endsWith(s, p) == Len(p) <= Len(s) /\ SubSeq(s, Len(s) - Len(p) + 1, Len(s)) = p

TEAMS == <<
  [id |-> <<"s","a","m","s","u","n","g">>,
   name |-> <<"h_sam","h_seong"," ","h_ra","h_i","h_on","h_jeu">>,
   shortName |-> <<"h_sam","h_seong">>],
  [id |-> <<"k","i","a">>,
   name |-> <<"K","I","A"," ","h_ta","h_i","h_geo","h_jeu">>,
   shortName |-> <<"K","I","A">>],
  [id |-> <<"l","g">>,
   name |-> <<"L","G"," ","h_teu","h_win","h_seu">>,
   shortName |-> <<"L","G">>],
  [id |-> <<"d","o","o","s","a","n">>,
   name |-> <<"h_du","h_san"," ","h_be","h_eo","h_seu">>,
   shortName |-> <<"h_du","h_san">>],
  [id |-> <<"s","s","g">>,
   name |-> <<"S","S","G"," ","h_raen","h_deo","h_seu">>,
   shortName |-> <<"S","S","G">>],
  [id |-> <<"k","t">>,
   name |-> <<"k","t"," ","w","i","z">>,
   shortName |-> <<"k","t">>],
  [id |-> <<"n","c">>,
   name |-> <<"N","C"," ","h_da","h_i","h_no","h_seu">>,
   shortName |-> <<"N","C">>],
  [id |-> <<"h","a","n","w","h","a">>,
   name |-> <<"h_han","h_hwa"," ","h_i","h_geul","h_seu">>,
   shortName |-> <<"h_han","h_hwa">>],
  [id |-> <<"l","o","t","t","e">>,
   name |-> <<"h_rot","h_de"," ","h_ja","h_i","h_eon","h_jeu">>,
   shortName |-> <<"h_rot","h_de">>],
  [id |-> <<"k","i","w","o","o","m">>,
   name |-> <<"h_ki","h_um"," ","h_hi","h_eo","h_ro","h_jeu">>,
   shortName |-> <<"h_ki","h_um">>]
>>

\* the candidate keys of one team, empty keys filtered out
Candidates(team) ==
    { k \in { normalizeTeamKey(team.id), normalizeTeamKey(team.name),
              normalizeTeamKey(team.shortName),
              normalizeTeamKey(StripSpaces(team.name)),
              normalizeTeamKey(StripSpaces(team.shortName)) } : k # <<>> }

\* the candidate keys of every team of TEAMS, in roster order
TeamKeys == [i \in 1..Len(TEAMS) |-> Candidates(TEAMS[i])]

\* mutant: a candidate matches only when it is the key itself
TeamMatchesExact(i, normalized) ==
    \E candidate \in TeamKeys[i] : candidate = normalized

TeamMatches(i, normalized) ==
    \E candidate \in TeamKeys[i] :
        \/ candidate = normalized
        \/ normalized = candidate \o <<"s">>
        \/ startsWith(normalized, candidate)
        \/ endsWith(normalized, candidate)

\* index in TEAMS of the first matching team, 0 when there is none
findTeamByAnyName(teamName) ==
    LET normalized == normalizeTeamKey(teamName)
        hits == { i \in 1..Len(TEAMS) : TeamMatches(i, normalized) }
    IN IF normalized = <<>> \/ hits = {} THEN 0
       ELSE CHOOSE i \in hits : \A j \in hits : i <= j

resolveTeamId(teamName) ==
    LET i == findTeamByAnyName(teamName)
    IN IF i = 0 THEN Null ELSE TEAMS[i].id

\* a || b for team ids (null and "" are falsy)
OrElse(a, b) == IF a = Null \/ a = <<>> THEN b ELSE a


SAMSUNG == <<"s","a","m","s","u","n","g">>
KIA == <<"k","i","a">>
LG == <<"l","g">>
NC == <<"n","c">>
\* the label "samsung lions"
SAMSUNG_LIONS == <<"s","a","m","s","u","n","g"," ","l","i","o","n","s">>
\* a label "Kia Tigers" a backend may send; a label no team matches
KIA_TIGERS == <<"K","i","a"," ","T","i","g","e","r","s">>
NO_TEAM == <<"z","z">>
\* a JSON value that is truthy and not a string (a number)
NotAString == <<"~number">>

\* ------------------------------------------------------------------------
\* Stream bytes, lines and JSON.parse
\* ------------------------------------------------------------------------
\* The response body is a sequence of tokens: "NL" is the newline, " " a
\* blank, "{" and "}" the braces of a record, a field token one
\* "name":value pair, "5" a number, "null" the null literal, "x" text that
\* is not JSON.  A chunk boundary may fall between any two tokens.
Undefined == "~undefined"
T10 == "0123456789"
T50 == T10 \o T10 \o T10 \o T10 \o T10
LongText == T50 \o T50 \o T50 \o T50 \o T10 \o T10

\* a text that is a number (truthy, without a length)
TextNumber == "~number"

FieldTokens == {"sA", "sB", "tHi", "tLong", "tEmpty", "t5", "mKia", "mZz", "m5"}

EmptyObject == [kind |-> "object", speaker |-> Undefined, text |-> Undefined,
                team |-> Null]

\* the object with the field of one token set (a repeated name: last wins)
SetField(obj, tok) ==
    CASE tok = "sA" -> [obj EXCEPT !.speaker = "A"]
      [] tok = "sB" -> [obj EXCEPT !.speaker = "B"]
      [] tok = "tHi" -> [obj EXCEPT !.text = "hi"]
      [] tok = "tLong" -> [obj EXCEPT !.text = LongText]
      [] tok = "tEmpty" -> [obj EXCEPT !.text = ""]
      [] tok = "t5" -> [obj EXCEPT !.text = TextNumber]
      [] tok = "mKia" -> [obj EXCEPT !.team = KIA_TIGERS]
      [] tok = "mZz" -> [obj EXCEPT !.team = NO_TEAM]
      [] tok = "m5" -> [obj EXCEPT !.team = NotAString]
      [] OTHER -> obj

RECURSIVE ObjectOf(_)
ObjectOf(toks) ==
    IF toks = <<>> THEN EmptyObject
    ELSE SetField(ObjectOf(SubSeq(toks, 1, Len(toks) - 1)), toks[Len(toks)])

\* JSON.parse(line): kind "throw" is a SyntaxError; "scalar" stands for a
\* number (as for a string, boolean or array, a property read of it gives
\* undefined); "null" is the value null.
JSONparse(line) ==
    LET t == SelectSeq(line, LAMBDA c : c \notin WhiteSpace)
    IN IF t = <<"5">> THEN [EmptyObject EXCEPT !.kind = "scalar"]
       ELSE IF t = <<"null">> THEN [EmptyObject EXCEPT !.kind = "null"]
       ELSE IF /\ Len(t) >= 2
               /\ t[1] = "{"
               /\ t[Len(t)] = "}"
               /\ \A i \in 2..(Len(t) - 1) : t[i] \in FieldTokens
            THEN ObjectOf(SubSeq(t, 2, Len(t) - 1))
       ELSE [EmptyObject EXCEPT !.kind = "throw"]

\* line.trim() is a non-empty string
TrimNonEmpty(line) == \E i \in 1..Len(line) : line[i] \notin WhiteSpace

\* buffer.split("\n"): the pieces between the newlines (always at least one)
RECURSIVE Split(_)
Split(s) ==
    IF \A i \in 1..Len(s) : s[i] # "NL" THEN <<s>>
    ELSE LET k == CHOOSE i \in 1..Len(s) :
                    s[i] = "NL" /\ \A j \in 1..(i - 1) : s[j] # "NL"
         IN <<SubSeq(s, 1, k - 1)>> \o Split(SubSeq(s, k + 1, Len(s)))

Min(a, b) == IF a < b THEN a ELSE b
Max(a, b) == IF a > b THEN a ELSE b

\* ------------------------------------------------------------------------
\* State
\* ------------------------------------------------------------------------
VARIABLES
    now,                    \* Date.now()
    homeTeamId, awayTeamId, \* props
    userTeam, agentTeam,    \* props: userTeam, selectedAgents[0]?.team
    gameNewsData,           \* localStorage: the item "gameNewsData"
    aiFanAgents,            \* localStorage: the item "ai-fan-agents"
    messages,               \* useState: the displayed messages
    contextMemory,          \* useState: the context accumulator
    inputMessage,           \* useState: the input field
    isGenerating,           \* useState
    closureMemory,          \* contextMemory as bound in the effect's closure
    isActive,               \* useEffect: let isActive
    requestCount,           \* useEffect: let requestCount
    lastRequestStartTime,   \* useEffect: let lastRequestStartTime
    loop,                   \* position of startOrchestratorRequest
    coolDue,                \* when the cooling timer is due
    call,                   \* position of callOrchestrator
    memoryToUse,            \* callOrchestrator's parameter
    requestStartTime,       \* callOrchestrator locals
    buffer, lineCount, parseErrorCount, lastMessageDisplayTime,
    lines,                  \* the lines of the current chunk not yet processed
    item,                   \* the item displayMessage is waiting to reveal
    paceDue,                \* when the pacing timer is due
    stream,                 \* the part of the response body not yet delivered
    chunksRead,             \* chunks delivered in this cycle
    body,                   \* history: the whole response body of the cycle
    cycleBase,              \* history: Len(messages) when the stream began
    handed,                 \* history: the lines given to the line loop
    requests,               \* history: the requests issued
    finished,               \* history: callOrchestrator invocations that ended
    outcome,                \* history: how the last cycle ended
    endTime,                \* history: when the last cycle ended
    sends,                  \* history: accepted user submissions
    attempts,               \* history: submissions of a blank input
    cancelAt                \* history: where the loop was at the teardown

props == <<homeTeamId, awayTeamId, userTeam, agentTeam, gameNewsData,
           aiFanAgents>>
loopVars == <<requestCount, lastRequestStartTime, loop, coolDue, requests>>
callVars == <<call, memoryToUse, requestStartTime, buffer, lineCount,
              parseErrorCount, lastMessageDisplayTime, lines, item, paceDue,
              stream, chunksRead, body, cycleBase, handed, finished, outcome,
              endTime, isGenerating>>
uiVars == <<contextMemory, inputMessage, sends, attempts>>
vars == <<now, props, messages, closureMemory, isActive, loopVars, callVars,
          uiVars, cancelAt>>

NoItem == [speaker |-> Undefined, text |-> Undefined, team |-> Null]

\* the props the component is mounted with
Props == { [home |-> SAMSUNG, away |-> KIA, user |-> KIA, agent |-> Null],
           [home |-> NC, away |-> LG, user |-> Null, agent |-> LG],
           [home |-> Null, away |-> KIA, user |-> Null, agent |-> Null],
           [home |-> Null, away |-> Null, user |-> Null, agent |-> Null] }

\* what a user types into the input field
UserInputs == {"go"}
\* inputMessage.trim() is a non-empty string
InputNonBlank(text) == text \notin {"", " ", "  "}

\* response bodies a backend may stream
Record(f) == <<"{">> \o f \o <<"}", "NL">>
Bodies == {
    <<>>,
    Record(<<"sA", "tHi">>) \o Record(<<"sB", "tLong", "mKia">>),
    <<"x", "NL">> \o Record(<<"sA", "tHi">>),
    <<"5", "NL">> \o Record(<<"sA", "tEmpty", "mZz">>),
    Record(<<"sA", "tHi">>) \o <<"null", "NL", " ", "NL">> \o Record(<<"tHi", "m5">>),
    Record(<<"sA", "tHi">>) \o <<"{", "sB", "tHi", "}">>,
    Record(<<>>) \o Record(<<"sB", "mKia">>)
}

\* how long an awaited network event of a stream may take
StreamDelays == {0, TickMs}
\* how late a timer may fire
Lateness == {0, TickMs}

\* localStorage.getItem of a key that is not stored
Absent == "~absent"
\* nothing is stored for the component
NoStore == [news |-> Absent, agents |-> Absent]

\* the state after construction, with the props p and the stored items st
InitWith(p, st) ==
    /\ now = StartTime
    /\ homeTeamId = p.home
    /\ awayTeamId = p.away
    /\ userTeam = p.user
    /\ agentTeam = p.agent
    /\ gameNewsData = st.news
    /\ aiFanAgents = st.agents
    /\ messages = <<>>
    /\ contextMemory = <<>>
    /\ inputMessage = ""
    /\ isGenerating = FALSE
    /\ closureMemory = contextMemory
    /\ isActive = TRUE
    /\ requestCount = 0
    /\ lastRequestStartTime = 0
    /\ loop = "idle"
    /\ coolDue = 0
    /\ call = "none"
    /\ memoryToUse = <<>>
    /\ requestStartTime = 0
    /\ buffer = <<>>
    /\ lineCount = 0
    /\ parseErrorCount = 0
    /\ lastMessageDisplayTime = 0
    /\ lines = <<>>
    /\ item = NoItem
    /\ paceDue = 0
    /\ stream = <<>>
    /\ chunksRead = 0
    /\ body = <<>>
    /\ cycleBase = 0
    /\ handed = <<>>
    /\ requests = <<>>
    /\ finished = 0
    /\ outcome = "none"
    /\ endTime = 0
    /\ sends = 0
    /\ attempts = 0
    /\ cancelAt = [loop |-> "none", call |-> "none"]

Init == \E p \in Props : InitWith(p, NoStore)

\* ------------------------------------------------------------------------
\* displayMessage: pacing and reveal
\* ------------------------------------------------------------------------
\* mutant: the interval does not grow with the length of the text
targetIntervalFlat(text) == minInterval

\* the number NaN: it is not greater than 0, and arithmetic on it gives NaN
NaN == -1

\* minInterval + (maxInterval - minInterval) * (min(length / 100, 2) / 2);
\* the length of a number is undefined, and the interval then NaN
targetInterval(text) ==
    IF text = TextNumber THEN NaN
    ELSE minInterval + ((maxInterval - minInterval)
                     * Min(Len(text), 2 * avgTextLength)) \div (2 * avgTextLength)

\* the delay displayMessage adds before the reveal; 0 for the first
\* message; Math.max(0, NaN) is NaN
additionalDelay(text, last, t) ==
    IF last = 0 THEN 0
    ELSE IF targetInterval(text) = NaN THEN NaN
    ELSE Max(0, targetInterval(text) - (t - last))

\* resolveTeamId(label) || homeTeamId || awayTeamId || "samsung"
TeamOrFallbackAwayFirst(label) ==
    OrElse(resolveTeamId(label), OrElse(awayTeamId, OrElse(homeTeamId, SAMSUNG)))

TeamOrFallback(label) ==
    OrElse(resolveTeamId(label), OrElse(homeTeamId, OrElse(awayTeamId, SAMSUNG)))

\* Math.random() for a message added to msgs: a value that the id of no
\* message of msgs has
Random(msgs) == Len(msgs) + 1

\* the id is Date.now().toString() + Math.random()
AgentMessage(it, t, rnd) ==
    LET resolvedTeamId == TeamOrFallback(it.team)
    IN [id |-> <<t, rnd>>, agentId |-> it.speaker, agentName |-> it.speaker,
        team |-> resolvedTeamId, isHome |-> (resolvedTeamId = homeTeamId),
        message |-> it.text, shownAt |-> t]

\* the fixed text of the catch block's message (in Korean in the source)
FailureText == "cannot generate the message, try again"

\* the synthetic message of the catch block
ErrorMessage(t) ==
    [id |-> <<t>>, agentId |-> "system", agentName |-> "system-name",
     team |-> SAMSUNG_LIONS, isHome |-> TRUE,
     message |-> FailureText, shownAt |-> t]

UserMessage(text, t) ==
    LET userTeamName == OrElse(userTeam, OrElse(agentTeam, SAMSUNG))
        resolvedUserTeamId == TeamOrFallback(userTeamName)
    IN [id |-> <<t>>, agentId |-> "user", agentName |-> "me",
        team |-> resolvedUserTeamId,
        isHome |-> (resolvedUserTeamId = homeTeamId),
        message |-> text, shownAt |-> t]

\* mutant: a parse error gives up the lines that follow and reports a failure
OnParseErrorFatal(c) ==
    [c EXCEPT !.parseErrorCount = @ + 1, !.lines = <<>>,
              !.messages = Append(@, ErrorMessage(now))]

\* the per-line catch block, on the locals c of the cycle: the error is
\* counted and the loop over the lines goes on
OnParseError(c) == [c EXCEPT !.parseErrorCount = @ + 1]

\* mutant: the message is put in front of the list
RevealInFront(c, it, t) ==
    IF it.team = NotAString
    THEN [OnParseError(c) EXCEPT !.item = NoItem]
    ELSE [c EXCEPT !.messages = <<AgentMessage(it, t, Random(@))>> \o @,
                   !.last = t, !.item = NoItem]

\* mutant: the list is replaced by the new message
RevealAlone(c, it, t) ==
    IF it.team = NotAString
    THEN [OnParseError(c) EXCEPT !.item = NoItem]
    ELSE [c EXCEPT !.messages = <<AgentMessage(it, t, Random(@))>>,
                   !.last = t, !.item = NoItem]

\* The second half of displayMessage, at time t, on the locals c of the
\* cycle: resolveTeamId throws on a team that is not a string, and the
\* per-line catch counts it; otherwise the message is appended.
Reveal(c, it, t) ==
    IF it.team = NotAString
    THEN [OnParseError(c) EXCEPT !.item = NoItem]
    ELSE [c EXCEPT !.messages = Append(@, AgentMessage(it, t, Random(@))),
                   !.last = t, !.item = NoItem]

\* mutant: the fields are taken as they are
ItemAsParsed(md) == [speaker |-> md.speaker, text |-> md.text, team |-> md.team]

\* messageData.speaker || "Unknown", messageData.text || "",
\* messageData.team || "samsung lions"
ItemOf(md) ==
    [speaker |-> IF md.speaker \in {Undefined, ""} THEN "Unknown" ELSE md.speaker,
     text |-> IF md.text = Undefined THEN "" ELSE md.text,
     team |-> OrElse(md.team, SAMSUNG_LIONS)]

\* The for-loop over the lines of a chunk, at time t, from the locals c:
\* it runs until a pacing timer has to be awaited (call "pace") or the
\* lines are used up (call "read").
RECURSIVE RunLines(_, _)
RunLines(c, t) ==
    IF c.lines = <<>> THEN [c EXCEPT !.call = "read"]
    ELSE LET line == Head(c.lines)
             c0 == [c EXCEPT !.lines = Tail(@)]
         IN IF ~TrimNonEmpty(line) THEN RunLines(c0, t)
            ELSE LET c1 == [c0 EXCEPT !.lineCount = @ + 1]
                     md == JSONparse(line)
                 IN IF md.kind \in {"throw", "null"}
                    THEN RunLines(OnParseError(c1), t)
                    ELSE LET it == ItemOf(md)
                             delay == additionalDelay(it.text, c1.last, t)
                         IN IF delay > 0
                            THEN [c1 EXCEPT !.call = "pace", !.item = it,
                                            !.paceDue = t + delay]
                            ELSE RunLines(Reveal(c1, it, t), t)

\* the locals of the running cycle, as a record
Locals ==
    [call |-> call, lines |-> lines, item |-> item, paceDue |-> paceDue,
     lineCount |-> lineCount, parseErrorCount |-> parseErrorCount,
     last |-> lastMessageDisplayTime, messages |-> messages]

SetLocals(c) ==
    /\ call' = c.call
    /\ lines' = c.lines
    /\ item' = c.item
    /\ paceDue' = c.paceDue
    /\ lineCount' = c.lineCount
    /\ parseErrorCount' = c.parseErrorCount
    /\ lastMessageDisplayTime' = c.last
    /\ messages' = c.messages

\* ------------------------------------------------------------------------
\* startOrchestratorRequest
\* ------------------------------------------------------------------------
\* mutant: the period is taken to be the pacer's longest interval
remainingWrongPeriod(t, start) == Max(0, maxInterval - (t - start))

\* Math.max(0, 15000 - (Date.now() - lastRequestStartTime))
remainingTime(t, start) == Max(0, FIXED_PERIOD - (t - start))

\* mutant: the active flag is not looked at
MayStartAlways(active) == TRUE

\* the guard "if (isActive)" before the recursive call and at the top
MayStart(active) == active

\* mutant: callOrchestrator is started and not awaited
NoAwait == FALSE

\* startOrchestratorRequest awaits callOrchestrator before it goes on
AwaitsCall == TRUE

\* JSON.parse of a stored string
Throws == "~throws"
ParseStored(str) ==
    CASE str = "{news}" -> "news-object"
      [] str = "[agents]" -> "agents-list"
      [] OTHER -> Throws

\* mutant: the stored news are parsed without a guard
NewsDataUnguarded == ParseStored(gameNewsData)

\* newsData of the request: {} unless the stored string is there and parses
NewsData ==
    IF gameNewsData \in {Absent, ""} THEN "{}"
    ELSE IF ParseStored(gameNewsData) = Throws THEN "{}"
    ELSE ParseStored(gameNewsData)

\* agents of the request: [] unless the stored string is there and parses
Agents ==
    IF aiFanAgents \in {Absent, ""} THEN "[]"
    ELSE IF ParseStored(aiFanAgents) = Throws THEN "[]"
    ELSE ParseStored(aiFanAgents)

\* the argument of callOrchestrator: the closure's contextMemory
RequestMemory == closureMemory

\* mutant: the request counter is advanced twice for one request
StartRequestSkips(t) ==
    IF ~MayStart(isActive)
    THEN [loop |-> "stopped", requestCount |-> requestCount,
          start |-> lastRequestStartTime, coolDue |-> coolDue, started |-> FALSE]
    ELSE [loop |-> IF AwaitsCall THEN "await" ELSE "cool",
          requestCount |-> requestCount + 2,
          start |-> t,
          coolDue |-> IF AwaitsCall THEN coolDue ELSE t + remainingTime(t, t),
          started |-> TRUE]

\* The loop variables after startOrchestratorRequest() is called at time t.
StartRequestAt(t) ==
    IF ~MayStart(isActive)
    THEN [loop |-> "stopped", requestCount |-> requestCount,
          start |-> lastRequestStartTime, coolDue |-> coolDue, started |-> FALSE]
    ELSE [loop |-> IF AwaitsCall THEN "await" ELSE "cool",
          requestCount |-> requestCount + 1,
          start |-> t,
          coolDue |-> IF AwaitsCall THEN coolDue ELSE t + remainingTime(t, t),
          started |-> TRUE]

\* mutant: the next request is started without cooling
AfterCallNoCool(t) == StartRequestAt(t)

\* The code after "await callOrchestrator(...)", run at time t.
AfterCall(t) ==
    LET remaining == remainingTime(t, lastRequestStartTime)
    IN IF remaining > 0
       THEN [loop |-> "cool", requestCount |-> requestCount,
             start |-> lastRequestStartTime, coolDue |-> t + remaining,
             started |-> FALSE]
       ELSE StartRequestAt(t)

\* The loop variables take the values of r; when r starts a request at
\* time t, the request is recorded with the history h of the cycle before.
SetLoop(r, t, h) ==
    /\ r.requestCount <= MaxRequests
    /\ loop' = r.loop
    /\ requestCount' = r.requestCount
    /\ lastRequestStartTime' = r.start
    /\ coolDue' = r.coolDue
    /\ requests' = IF r.started
                   THEN Append(requests,
                               [id |-> r.requestCount, start |-> t,
                                userMessages |-> RequestMemory,
                                newsData |-> NewsData,
                                agents |-> Agents,
                                context |-> contextMemory,
                                priorFinished |-> h.finished,
                                pendingWork |-> h.pendingWork,
                                prevEnd |-> h.endTime,
                                prevOutcome |-> h.outcome])
                   ELSE requests

\* mutant: the finally block does not reset the flag
EnterCallKeepsFlag(r) ==
    /\ call' = IF r.started THEN "fetch" ELSE "none"
    /\ isGenerating' = (isGenerating \/ r.started)
    /\ memoryToUse' = IF r.started THEN RequestMemory ELSE memoryToUse

\* callOrchestrator from its first line to "await fetch(...)"; when no
\* request follows, the flag is as the finally block has left it
EnterCall(r) ==
    /\ call' = IF r.started THEN "fetch" ELSE "none"
    /\ isGenerating' = r.started
    /\ memoryToUse' = IF r.started THEN RequestMemory ELSE memoryToUse

\* The cycle ends at time t in the way kind (the finally block has run):
\* the loop goes on if it was awaiting the call.
EndCall(t, kind) ==
    LET r == IF loop = "await" THEN AfterCall(t)
             ELSE [loop |-> loop, requestCount |-> requestCount,
                   start |-> lastRequestStartTime, coolDue |-> coolDue,
                   started |-> FALSE]
    IN /\ SetLoop(r, t, [finished |-> finished + 1, outcome |-> kind,
                         endTime |-> t,
                         pendingWork |-> (lines # <<>> \/ item # NoItem)])
       /\ EnterCall(r)
       /\ finished' = finished + 1
       /\ outcome' = kind
       /\ endTime' = t

\* the history of the last cycle, for a request started by a timer
History ==
    [finished |-> finished, outcome |-> outcome, endTime |-> endTime,
     pendingWork |-> (call # "none" \/ lines # <<>> \/ item # NoItem)]

\* ------------------------------------------------------------------------
\* Actions
\* ------------------------------------------------------------------------
\* the effect runs after the first render
StartSession ==
    /\ loop = "idle"
    /\ LET r == StartRequestAt(now)
       IN SetLoop(r, now, History) /\ EnterCall(r)
    /\ UNCHANGED <<now, props, cancelAt, messages, closureMemory, isActive, uiVars,
                   requestStartTime, buffer, lineCount, parseErrorCount,
                   lastMessageDisplayTime, lines, item, paceDue, stream,
                   chunksRead, body, cycleBase, handed, finished, outcome, endTime>>

\* mutant: the pacer's last display time is kept from the cycle before
FetchResolveKeepsPacer(d, b) ==
    /\ call = "fetch"
    /\ now + d <= MaxTime
    /\ now' = now + d
    /\ call' = "read"
    /\ buffer' = <<>>
    /\ lineCount' = 0
    /\ parseErrorCount' = 0
    /\ requestStartTime' = now'
    /\ stream' = b
    /\ body' = b
    /\ chunksRead' = 0
    /\ cycleBase' = Len(messages)
    /\ handed' = <<>>
    /\ UNCHANGED <<props, cancelAt, messages, closureMemory, isActive, loopVars, uiVars,
                   memoryToUse, lines, item, paceDue, finished, outcome,
                   endTime, isGenerating, lastMessageDisplayTime>>

\* mutant: the counters are kept from the cycle before
FetchResolveKeepsCounters(d, b) ==
    /\ call = "fetch"
    /\ now + d <= MaxTime
    /\ now' = now + d
    /\ call' = "read"
    /\ buffer' = <<>>
    /\ requestStartTime' = now'
    /\ lastMessageDisplayTime' = 0
    /\ stream' = b
    /\ body' = b
    /\ chunksRead' = 0
    /\ cycleBase' = Len(messages)
    /\ handed' = <<>>
    /\ UNCHANGED <<props, cancelAt, messages, closureMemory, isActive, loopVars, uiVars,
                   memoryToUse, lines, item, paceDue, finished, outcome,
                   endTime, isGenerating, lineCount,
                   parseErrorCount>>

\* fetch resolves with a success status and a body
FetchResolve(d, b) ==
    /\ call = "fetch"
    /\ now + d <= MaxTime
    /\ now' = now + d
    /\ call' = "read"
    /\ buffer' = <<>>
    /\ lineCount' = 0
    /\ parseErrorCount' = 0
    /\ requestStartTime' = now'
    /\ lastMessageDisplayTime' = 0
    /\ stream' = b
    /\ body' = b
    /\ chunksRead' = 0
    /\ cycleBase' = Len(messages)
    /\ handed' = <<>>
    /\ UNCHANGED <<props, cancelAt, messages, closureMemory, isActive, loopVars, uiVars,
                   memoryToUse, lines, item, paceDue, finished, outcome,
                   endTime, isGenerating>>

\* mutant: the catch block also clears the active flag
FetchFailStops(d) ==
    /\ call = "fetch"
    /\ now + d <= MaxTime
    /\ now' = now + d
    /\ messages' = Append(messages, ErrorMessage(now'))
    /\ EndCall(now', "fetchfail")
    /\ isActive' = FALSE
    /\ UNCHANGED <<props, cancelAt, closureMemory, uiVars, requestStartTime,
                   buffer, lineCount, parseErrorCount, lastMessageDisplayTime,
                   lines, item, paceDue, stream, chunksRead, body, cycleBase, handed>>

\* mutant: the synthetic message is also recorded in the context
FetchFailIntoContext(d) ==
    /\ call = "fetch"
    /\ now + d <= MaxTime
    /\ now' = now + d
    /\ messages' = Append(messages, ErrorMessage(now'))
    /\ contextMemory' = Append(contextMemory,
                               [speaker |-> "system", text |-> FailureText])
    /\ EndCall(now', "fetchfail")
    /\ UNCHANGED <<props, cancelAt, closureMemory, isActive, inputMessage,
                   sends, attempts, requestStartTime,
                   buffer, lineCount, parseErrorCount, lastMessageDisplayTime,
                   lines, item, paceDue, stream, chunksRead, body, cycleBase,
                   handed>>

\* fetch rejects, or the status is not ok, or the response has no body
FetchFail(d) ==
    /\ call = "fetch"
    /\ now + d <= MaxTime
    /\ now' = now + d
    /\ messages' = Append(messages, ErrorMessage(now'))
    /\ EndCall(now', "fetchfail")
    /\ UNCHANGED <<props, cancelAt, closureMemory, isActive, uiVars, requestStartTime,
                   buffer, lineCount, parseErrorCount, lastMessageDisplayTime,
                   lines, item, paceDue, stream, chunksRead, body, cycleBase, handed>>

\* where a chunk of the rest s of a body may end: anywhere, or (whole) only
\* after a newline or at the end of the body
ChunkEnds(s, whole) ==
    { k \in 1..Len(s) : ~whole \/ s[k] = "NL" \/ k = Len(s) }

\* mutant: the unfinished line of the chunk before is not kept
ReadChunkNoCarry(d, k) ==
    /\ call = "read"
    /\ k \in 1..Len(stream)
    /\ chunksRead < MaxChunks
    /\ chunksRead + 1 = MaxChunks => k = Len(stream)
    /\ now + d <= MaxTime
    /\ now' = now + d
    /\ LET pieces == Split(SubSeq(stream, 1, k))
           c == RunLines([Locals EXCEPT
                            !.lines = SubSeq(pieces, 1, Len(pieces) - 1)], now')
       IN /\ buffer' = pieces[Len(pieces)]
          /\ handed' = handed \o SubSeq(pieces, 1, Len(pieces) - 1)
          /\ SetLocals(c)
    /\ stream' = SubSeq(stream, k + 1, Len(stream))
    /\ chunksRead' = chunksRead + 1
    /\ UNCHANGED <<props, cancelAt, closureMemory, isActive, loopVars, uiVars,
                   memoryToUse, requestStartTime, body, cycleBase, finished,
                   outcome, endTime, isGenerating>>

\* reader.read() gives the next k tokens of the body
\* mutant: the next chunk is read while an item waits for its reveal
ReadChunkWhilePacing(d, k) ==
    /\ call \in {"read", "pace"}
    /\ k \in 1..Len(stream)
    /\ chunksRead < MaxChunks
    /\ chunksRead + 1 = MaxChunks => k = Len(stream)
    /\ now + d <= MaxTime
    /\ now' = now + d
    /\ LET pieces == Split(buffer \o SubSeq(stream, 1, k))
           c == RunLines([Locals EXCEPT
                            !.lines = lines \o SubSeq(pieces, 1, Len(pieces) - 1)], now')
       IN /\ buffer' = pieces[Len(pieces)]
          /\ handed' = handed \o SubSeq(pieces, 1, Len(pieces) - 1)
          /\ SetLocals(c)
    /\ stream' = SubSeq(stream, k + 1, Len(stream))
    /\ chunksRead' = chunksRead + 1
    /\ UNCHANGED <<props, cancelAt, closureMemory, isActive, loopVars, uiVars,
                   memoryToUse, requestStartTime, body, cycleBase, finished,
                   outcome, endTime, isGenerating>>

\* reader.read() gives a chunk: decode, split, and the loop over the lines
ReadChunk(d, k) ==
    /\ call = "read"
    /\ k \in 1..Len(stream)
    /\ chunksRead < MaxChunks
    /\ chunksRead + 1 = MaxChunks => k = Len(stream)
    /\ now + d <= MaxTime
    /\ now' = now + d
    /\ LET pieces == Split(buffer \o SubSeq(stream, 1, k))
           c == RunLines([Locals EXCEPT
                            !.lines = SubSeq(pieces, 1, Len(pieces) - 1)], now')
       IN /\ buffer' = pieces[Len(pieces)]
          /\ handed' = handed \o SubSeq(pieces, 1, Len(pieces) - 1)
          /\ SetLocals(c)
    /\ stream' = SubSeq(stream, k + 1, Len(stream))
    /\ chunksRead' = chunksRead + 1
    /\ UNCHANGED <<props, cancelAt, closureMemory, isActive, loopVars, uiVars,
                   memoryToUse, requestStartTime, body, cycleBase, finished,
                   outcome, endTime, isGenerating>>

\* mutant: at the end of the stream the rest of the buffer is parsed and
\* displayed as one more line
ReadDoneFlush(d) ==
    /\ call = "read"
    /\ stream = <<>>
    /\ now + d <= MaxTime
    /\ now' = now + d
    /\ EndCall(now', "done")
    /\ messages' = IF TrimNonEmpty(buffer)
                   THEN Append(messages,
                               AgentMessage(ItemOf(JSONparse(buffer)), now',
                                            Random(messages)))
                   ELSE messages
    /\ UNCHANGED <<props, cancelAt, closureMemory, isActive, uiVars,
                   requestStartTime, buffer, lineCount, parseErrorCount,
                   lastMessageDisplayTime, lines, item, paceDue, stream,
                   chunksRead, body, cycleBase, handed>>

\* mutant: a stream that ends without any byte is reported as a failure
ReadDoneEmptyFails(d) ==
    /\ call = "read"
    /\ stream = <<>>
    /\ now + d <= MaxTime
    /\ now' = now + d
    /\ EndCall(now', "done")
    /\ messages' = IF body = <<>> THEN Append(messages, ErrorMessage(now'))
                   ELSE messages
    /\ UNCHANGED <<props, cancelAt, closureMemory, isActive, uiVars,
                   requestStartTime, buffer, lineCount, parseErrorCount,
                   lastMessageDisplayTime, lines, item, paceDue, stream,
                   chunksRead, body, cycleBase, handed>>

\* reader.read() reports the end of the stream
ReadDone(d) ==
    /\ call = "read"
    /\ stream = <<>>
    /\ now + d <= MaxTime
    /\ now' = now + d
    /\ EndCall(now', "done")
    /\ UNCHANGED <<props, cancelAt, messages, closureMemory, isActive, uiVars,
                   requestStartTime, buffer, lineCount, parseErrorCount,
                   lastMessageDisplayTime, lines, item, paceDue, stream,
                   chunksRead, body, cycleBase, handed>>

\* mutant: a failed read ends the cycle without the catch block's message
ReadErrorSilent(d) ==
    /\ call = "read"
    /\ now + d <= MaxTime
    /\ now' = now + d
    /\ EndCall(now', "readerror")
    /\ UNCHANGED <<props, cancelAt, messages, closureMemory, isActive, uiVars,
                   requestStartTime, buffer, lineCount, parseErrorCount,
                   lastMessageDisplayTime, lines, item, paceDue, stream,
                   chunksRead, body, cycleBase, handed>>

\* reader.read() rejects: the outer catch and the finally block run
ReadError(d) ==
    /\ call = "read"
    /\ now + d <= MaxTime
    /\ now' = now + d
    /\ messages' = Append(messages, ErrorMessage(now'))
    /\ EndCall(now', "readerror")
    /\ UNCHANGED <<props, cancelAt, closureMemory, isActive, uiVars, requestStartTime,
                   buffer, lineCount, parseErrorCount, lastMessageDisplayTime,
                   lines, item, paceDue, stream, chunksRead, body, cycleBase, handed>>

\* the pacing timer of displayMessage fires
PaceFire(late) ==
    /\ call = "pace"
    /\ Max(now, paceDue) + late <= MaxTime
    /\ now' = Max(now, paceDue) + late
    /\ SetLocals(RunLines(Reveal(Locals, item, now'), now'))
    /\ UNCHANGED <<props, cancelAt, closureMemory, isActive, loopVars, uiVars,
                   memoryToUse, requestStartTime, buffer, stream, chunksRead,
                   body, cycleBase, handed, finished, outcome, endTime, isGenerating>>

\* the cooling timer of startOrchestratorRequest fires
CoolFire(late) ==
    /\ loop = "cool"
    /\ Max(now, coolDue) + late <= MaxTime
    /\ now' = Max(now, coolDue) + late
    /\ LET r == StartRequestAt(now')
       IN /\ SetLoop(r, now', History)
          /\ IF r.started THEN EnterCall(r)
             ELSE UNCHANGED <<call, isGenerating, memoryToUse>>
    /\ UNCHANGED <<props, cancelAt, messages, closureMemory, isActive, uiVars,
                   requestStartTime, buffer, lineCount, parseErrorCount,
                   lastMessageDisplayTime, lines, item, paceDue, stream,
                   chunksRead, body, cycleBase, handed, finished, outcome, endTime>>

\* onChange of the input field, while fewer than n submissions were made
SetInputUpTo(text, n) ==
    /\ loop # "idle"
    /\ sends < n
    /\ inputMessage # text
    /\ inputMessage' = text
    /\ UNCHANGED <<now, props, cancelAt, messages, closureMemory, isActive, loopVars,
                   callVars, contextMemory, sends, attempts>>

\* onChange of the input field
SetInput(text) == SetInputUpTo(text, MaxSends)

\* mutant: the new entry is put in front of the accumulated ones
EntryInFront(prev, entry) == <<entry>> \o prev

\* the updater of setContextMemory: prev => [...prev, entry]
AppendEntry(prev, entry) == Append(prev, entry)

\* mutant: the entry is pushed onto the shared array
HeldAliased(mem, entry) == Append(mem, entry)

\* setContextMemory(prev => [...prev, entry]) builds a new array: an array
\* mem handed out earlier (the closure's, the running request's) stays as
\* it is.
HeldAfterSend(mem, entry) == mem

\* mutant: a submission is taken only while no cycle is in progress
handleSendWhenIdle ==
    /\ loop # "idle"
    /\ call = "none"
    /\ InputNonBlank(inputMessage)
    /\ inputMessage' = ""
    /\ messages' = Append(messages, UserMessage(inputMessage, now))
    /\ LET entry == [speaker |-> "user-label", text |-> inputMessage]
       IN /\ contextMemory' = AppendEntry(contextMemory, entry)
          /\ closureMemory' = HeldAfterSend(closureMemory, entry)
          /\ memoryToUse' = HeldAfterSend(memoryToUse, entry)
    /\ sends' = sends + 1
    /\ attempts' = attempts
    /\ UNCHANGED <<now, props, cancelAt, isActive, loopVars, requestStartTime, buffer,
                   lineCount, parseErrorCount, lastMessageDisplayTime, lines,
                   item, paceDue, stream, chunksRead, body, cycleBase, handed,
                   finished, outcome, endTime, isGenerating, call>>

\* mutant: a submission counts as a reveal for the pacer
handleSendRestartsPacer ==
    /\ loop # "idle"
    /\ InputNonBlank(inputMessage)
    /\ inputMessage' = ""
    /\ messages' = Append(messages, UserMessage(inputMessage, now))
    /\ LET entry == [speaker |-> "user-label", text |-> inputMessage]
       IN /\ contextMemory' = AppendEntry(contextMemory, entry)
          /\ closureMemory' = HeldAfterSend(closureMemory, entry)
          /\ memoryToUse' = HeldAfterSend(memoryToUse, entry)
    /\ sends' = sends + 1
    /\ attempts' = attempts
    /\ lastMessageDisplayTime' =
          IF call = "pace" THEN now ELSE lastMessageDisplayTime
    /\ UNCHANGED <<now, props, cancelAt, isActive, loopVars, requestStartTime, buffer,
                   lineCount, parseErrorCount, lines,
                   item, paceDue, stream, chunksRead, body, cycleBase, handed,
                   finished, outcome, endTime, isGenerating, call>>

\* mutant: a blank submission empties the input field
handleSendBlankClears ==
    /\ loop # "idle"
    /\ ~InputNonBlank(inputMessage)
    /\ attempts < MaxSends
    /\ attempts' = attempts + 1
    /\ inputMessage' = ""
    /\ UNCHANGED <<now, props, cancelAt, messages, closureMemory, isActive,
                   loopVars, callVars, contextMemory, sends>>

\* handleSendMessage with an input that is empty or blank: the early return
handleSendBlank ==
    /\ loop # "idle"
    /\ ~InputNonBlank(inputMessage)
    /\ attempts < MaxSends
    /\ attempts' = attempts + 1
    /\ UNCHANGED <<now, props, cancelAt, messages, closureMemory, isActive,
                   loopVars, callVars, contextMemory, inputMessage, sends>>

\* handleSendMessage with an input that is not blank
handleSendMessage ==
    /\ loop # "idle"
    /\ InputNonBlank(inputMessage)
    /\ inputMessage' = ""
    /\ messages' = Append(messages, UserMessage(inputMessage, now))
    /\ LET entry == [speaker |-> "user-label", text |-> inputMessage]
       IN /\ contextMemory' = AppendEntry(contextMemory, entry)
          /\ closureMemory' = HeldAfterSend(closureMemory, entry)
          /\ memoryToUse' = HeldAfterSend(memoryToUse, entry)
    /\ sends' = sends + 1
    /\ attempts' = attempts
    /\ UNCHANGED <<now, props, cancelAt, isActive, loopVars, requestStartTime, buffer,
                   lineCount, parseErrorCount, lastMessageDisplayTime, lines,
                   item, paceDue, stream, chunksRead, body, cycleBase, handed,
                   finished, outcome, endTime, isGenerating, call>>

\* the cleanup of the effect
Unmount ==
    /\ loop # "idle"
    /\ isActive
    /\ isActive' = FALSE
    /\ cancelAt' = [loop |-> loop, call |-> call]
    /\ UNCHANGED <<now, props, messages, closureMemory, loopVars, callVars,
                   uiVars>>

\* the steps of the request loop, for the bodies, delays, latenesses and
\* chunk boundaries considered
LoopStep(bodies, delays, lates, whole) ==
    \/ StartSession
    \/ \E d \in delays : \E b \in bodies : FetchResolve(d, b)
    \/ \E d \in delays : FetchFail(d)
    \/ \E d \in delays : \E k \in ChunkEnds(stream, whole) : ReadChunk(d, k)
    \/ \E d \in delays : ReadDone(d)
    \/ \E d \in delays : ReadError(d)
    \/ \E late \in lates : PaceFire(late)
    \/ \E late \in lates : CoolFire(late)

UserStep ==
    \/ \E text \in UserInputs : SetInput(text)
    \/ handleSendMessage

\* bodies of whole records, delivered line by line
LoopBodies == { <<>>,
                Record(<<"sA", "tHi">>) \o Record(<<"sB", "tLong", "mKia">>) }

\* network events that come at once or take a whole period
LoopDelays == {0, minInterval, FIXED_PERIOD}

\* The viewing session: the loop, the user and the teardown.
Next ==
    \/ LoopStep(LoopBodies, LoopDelays, Lateness, TRUE)
    \/ UserStep
    \/ Unmount

\* mounted for a game Samsung (home) against KIA
LoopInit == Init /\ homeTeamId = SAMSUNG

Spec == LoopInit /\ [][Next]_vars

\* One request cycle on every body, cut into chunks anywhere.
StreamNext ==
    /\ \/ LoopStep(Bodies, StreamDelays, {0}, FALSE)
       \/ Unmount
    /\ requestCount' <= 1

StreamSpec == Init /\ [][StreamNext]_vars

\* One request cycle of paced records: the lines come one chunk each, at
\* once or after one of the pacing intervals, and the viewer may write.
PaceBodies == { Record(<<"sA", "tHi">>) \o Record(<<"sB", "tLong">>)
                  \o Record(<<"sA", "tEmpty">>),
                Record(<<"sA", "tEmpty">>) \o Record(<<"sB", "tEmpty", "mKia">>) }

PaceDelays == {0, minInterval, maxInterval}

PaceNext ==
    /\ \/ LoopStep(PaceBodies, PaceDelays, Lateness, TRUE)
       \/ UserStep
       \/ Unmount
    /\ requestCount' <= 1

PaceSpec == LoopInit /\ [][PaceNext]_vars

\* The loop alone, with timers that fire when they are due: a timer set
\* with setTimeout does fire, so the cooling timer is weakly fair.
LiveBodies == { <<>>,
                Record(<<"sA", "tHi">>) \o <<"x", "NL">>
                  \o Record(<<"sB", "tHi">>) }

LiveNext ==
    \/ LoopStep(LiveBodies, {0, FIXED_PERIOD}, {0}, TRUE)
    \/ Unmount

FairSpec ==
    /\ LoopInit
    /\ [][LiveNext]_vars
    /\ WF_vars(CoolFire(0))

\* The viewer writing during one request cycle, its cooling wait and after
\* the teardown, with timers that fire when they are due.
SendNext ==
    /\ \/ LoopStep(LiveBodies, {0, FIXED_PERIOD}, {0}, TRUE)
       \/ UserStep
       \/ Unmount
    /\ requestCount' <= 1

SendSpec == LoopInit /\ [][SendNext]_vars

\* The session with a viewer who writes several different messages.
ContextInputs == {"go", "ok"}

ContextNext ==
    \/ LoopStep(LiveBodies, {0}, {0}, TRUE)
    \/ \E text \in ContextInputs : SetInputUpTo(text, MaxSends + 1)
    \/ handleSendMessage
    \/ Unmount

ContextSpec == LoopInit /\ [][ContextNext]_vars

\* The session with the two stored items missing, empty, not parseable or
\* well-formed.
Unparseable == "{news"
Stores == [news : {Absent, "", Unparseable, "{news}"},
           agents : {Absent, "", Unparseable, "[agents]"}]

StorageInit ==
    \E st \in Stores :
        InitWith([home |-> SAMSUNG, away |-> KIA, user |-> KIA, agent |-> Null], st)

StorageNext ==
    \/ LoopStep(LoopBodies, {0}, {0}, TRUE)
    \/ Unmount

StorageSpec == StorageInit /\ [][StorageNext]_vars

\* One request cycle of two records, the second with a text that is a
\* string or a number.
IntervalBodies == { Record(<<"sA", "tHi">>) \o Record(<<"sB", "tEmpty">>),
                    Record(<<"sA", "tHi">>) \o Record(<<"sB", "t5">>) }

IntervalNext ==
    /\ \/ LoopStep(IntervalBodies, {0, minInterval}, Lateness, TRUE)
       \/ UserStep
       \/ Unmount
    /\ requestCount' <= 1

IntervalSpec == LoopInit /\ [][IntervalNext]_vars

\* The loop over several cycles on bodies with a line that does not parse,
\* cut into chunks anywhere.
CounterNext ==
    \/ LoopStep(LiveBodies, {0}, {0}, FALSE)
    \/ Unmount

CounterSpec == LoopInit /\ [][CounterNext]_vars

\* The session with a viewer who also submits an empty or a blank input.
BlankInputs == {"", " ", "  "}

BlankNext ==
    \/ LoopStep(LoopBodies, {0}, {0}, TRUE)
    \/ \E text \in BlankInputs \cup UserInputs : SetInput(text)
    \/ handleSendMessage
    \/ handleSendBlank
    \/ Unmount

BlankSpec == LoopInit /\ [][BlankNext]_vars

\* The team resolver on labels of many spellings: the viewer's team is any
\* of the labels, the team of the first agent another spelling of some of
\* them, no team is given for the game, and the viewer writes during a
\* cycle.
Labels == {
    Null,
    <<>>,
    <<" ">>,
    <<"-">>,
    <<"K","i","a"," ","T","i","g","e","r","s">>,
    <<"k","i","a"," ","t","i","g","e","r","s">>,
    <<"K","I","A","T","I","G","E","R","S">>,
    <<"K","I","A">>,
    <<"k",".","i",".","a">>,
    <<"k","i","a">>,
    <<"s","a","m","s","u","n","g"," ","l","i","o","n","s">>,
    <<"S","a","m","s","u","n","g"," ","L","i","o","n","s">>,
    <<"s","a","m","s","u","n","g">>,
    <<"z","z">>,
    <<"l","g","s">>,
    <<"L","G"," ","T","w","i","n","s">>,
    <<"l","g">>,
    <<"h_sam","h_seong">>,
    <<"h_sam","h_seong"," ","h_ra","h_i","h_on","h_jeu">>,
    <<"h_du","h_san">>,
    <<"k","t"," ","w","i","z">>,
    <<"K","T","W","I","Z">>,
    <<"s","k","t">>,
    <<"k","t">>,
    <<"d","o","o","s","a","n">>,
    <<"s","s","g">>,
    <<"n","c">>,
    <<"h","a","n","w","h","a">>,
    <<"l","o","t","t","e">>,
    <<"k","i","w","o","o","m">>,
    <<"k","i","a","s","a","m","s","u","n","g">>,
    <<"n","c","s"," ","l","g">>,
    <<"x"," ","k","i","w","o","o","m"," ","h","e","r","o","e","s">>,
    <<"D","o","o","s","a","n"," ","B","e","a","r","s">>
}

\* other spellings of some of the labels
Respelled == {
    Null,
    <<"K","I","A","T","I","G","E","R","S">>,
    <<"k","i","a"," ","t","i","g","e","r","s">>,
    <<"S","A","M","S","U","N","G","-","L","I","O","N","S">>,
    <<"K","T"," ","W","i","z">>,
    <<" ","L","g"," ">>,
    <<"h_sam"," ","h_seong">>,
    <<".">>
}

ResolverInit ==
    \E a \in Labels : \E b \in Respelled :
        InitWith([home |-> Null, away |-> Null, user |-> a, agent |-> b],
                 NoStore)

ResolverNext ==
    /\ \/ LoopStep({<<>>}, {0}, {0}, TRUE)
       \/ UserStep
       \/ Unmount
    /\ requestCount' <= 1

ResolverSpec == ResolverInit /\ [][ResolverNext]_vars

\* ------------------------------------------------------------------------
\* Properties
\* ------------------------------------------------------------------------
IsAgentMessage(m) == m.agentId \notin {"user", "system"}
IsErrorMessage(m) == m.agentId = "system" /\ m.message = FailureText

\* the step appends exactly one message and keeps the earlier ones
AppendsOne ==
    /\ Len(messages') = Len(messages) + 1
    /\ SubSeq(messages', 1, Len(messages)) = messages

\* C1: once the session is cancelled, no agent message and no synthetic
\* error message is appended to the message list any more (only the viewer's
\* own submissions can still add one).
C1_NoAppendAfterCancel ==
    [][~isActive =>
          \/ messages' = messages
          \/ AppendsOne /\ messages'[Len(messages')].agentId = "user"]_vars

\* C2: once the session is cancelled no further request is issued, whether
\* a cooling timer fires afterwards or the running cycle ends afterwards,
\* and the stopped loop stays stopped.
C2_NoRequestAfterCancel ==
    [][/\ ~isActive => requests' = requests /\ requestCount' = requestCount
       /\ loop = "stopped" =>
            loop' = "stopped" /\ requests' = requests /\ call' = call]_vars

\* a cooling timer was pending at the teardown, has fired, and the loop
\* has stopped without a request
C2_Witness ==
    /\ ~isActive
    /\ cancelAt.loop = "cool"
    /\ loop = "stopped"
    /\ now >= coolDue
    /\ requestCount = 1

\* C3: the userMessages of every request are the context accumulated when
\* the request is issued, so every entry appended before cycle n+1 starts
\* is in the request of cycle n+1, in append order.
C3_RequestCarriesSnapshot ==
    \A i \in 1..Len(requests) : requests[i].userMessages = requests[i].context

\* C4: while a cycle is in flight the payload of its request is the one
\* fixed at issuance; an entry appended mid-cycle is not in it.
C4_PayloadFixed ==
    call # "none" =>
        /\ memoryToUse = requests[requestCount].userMessages
        /\ Len(memoryToUse) <= Len(requests[requestCount].context)

\* a user message was accepted while the cycle was in flight
C4_Witness ==
    /\ call \in {"fetch", "read", "pace"}
    /\ Len(contextMemory) > Len(requests[requestCount].context)

\* C5: at most one cycle is in progress, and a request is issued only when
\* every earlier cycle has ended with no line left to process and no item
\* left to reveal.
C5_NoOverlap ==
    /\ requestCount - finished \in {0, 1}
    /\ (call = "none") <=> (finished = requestCount)
    /\ \A i \in 1..Len(requests) :
          requests[i].priorFinished = i - 1 /\ ~requests[i].pendingWork

\* a second request was issued after a cycle that displayed two messages
C5_Witness ==
    /\ Len(requests) = 2
    /\ requests[2].prevOutcome = "done"
    /\ Len(SelectSeq(messages, IsAgentMessage)) >= 2

FetchFailStep == call = "fetch" /\ finished' = finished + 1

\* what is left of the period when the cycle ends in this step
RemainingAtEnd == FIXED_PERIOD - (now' - lastRequestStartTime)

\* the cycle that ends in this step cools down for the rest of the period
\* (or, the period being over, the next request follows at once)
CoolsDown ==
    /\ RemainingAtEnd > 0 =>
          /\ loop' = "cool"
          /\ coolDue' = lastRequestStartTime + FIXED_PERIOD
          /\ requests' = requests
          /\ call' = "none"
    /\ RemainingAtEnd <= 0 /\ isActive /\ requestCount < MaxRequests =>
          /\ loop' = "await"
          /\ Len(requests') = Len(requests) + 1

\* C8: a request that fails before any byte arrives appends exactly one
\* message, the synthetic one; the cycle then cools down, and the request
\* after a cooling wait is issued no earlier than the end of the period.
C8_FailBeforeFirstByte ==
    /\ [][FetchFailStep =>
            /\ AppendsOne
            /\ IsErrorMessage(messages'[Len(messages')])
            /\ CoolsDown]_vars
    /\ [][loop = "cool" /\ requests' # requests => now' >= coolDue]_vars

\* the first request failed, and the second one followed after the period
C8_Witness ==
    /\ Len(requests) = 2
    /\ requests[2].prevOutcome = "fetchfail"
    /\ requests[2].start >= requests[1].start + FIXED_PERIOD
    /\ Len(messages) = 1
    /\ IsErrorMessage(messages[1])

\* the step in which a read of the stream fails after the cycle has
\* displayed at least one agent message
MidStreamFailStep ==
    /\ call = "read"
    /\ finished' = finished + 1
    /\ outcome' = "readerror"
    /\ \E j \in (cycleBase + 1)..Len(messages) : IsAgentMessage(messages[j])

\* C9 as stated: a failure in mid-stream appends no message.
C9_MidStreamSilent ==
    [][MidStreamFailStep => messages' = messages /\ CoolsDown]_vars

\* C9, amended: a failure in mid-stream keeps the messages displayed so far,
\* appends exactly one message, the synthetic one, and the cycle cools down.
C9_MidStreamError ==
    [][MidStreamFailStep =>
          /\ AppendsOne
          /\ IsErrorMessage(messages'[Len(messages')])
          /\ CoolsDown]_vars

\* a cycle displayed an agent message, then its stream failed
C9_Witness ==
    /\ outcome = "readerror"
    /\ call = "none"
    /\ loop = "cool"
    /\ Len(messages) >= 2
    /\ IsAgentMessage(messages[Len(messages) - 1])
    /\ IsErrorMessage(messages[Len(messages)])

\* C7: whenever cycle n has ended in an active session (within the clock
\* horizon and the bound on requests), request n+1 is eventually issued
\* unless the session is torn down; and the active flag is cleared by the
\* teardown only.
C7_LoopGoesOn ==
    /\ \A n \in 1..(MaxRequests - 1) :
          (isActive /\ finished = n /\ requestCount = n /\ coolDue <= MaxTime)
             ~> (requestCount > n \/ ~isActive)
    /\ [][isActive /\ ~isActive' => Unmount]_vars

\* a cycle whose stream failed after a parse error was followed by the
\* next request
C7_Witness ==
    /\ isActive
    /\ Len(requests) = 2
    /\ requests[2].prevOutcome = "readerror"
    /\ parseErrorCount = 1

\* the complete lines of a body: the pieces before its last newline
CompleteLines(b) == LET pieces == Split(b)
                    IN SubSeq(pieces, 1, Len(pieces) - 1)

\* a line that is a record whose fields have the types of a commentary item
WellFormed(line) ==
    LET md == JSONparse(line)
    IN md.kind = "object" /\ md.team # NotAString

\* speaker and text of the items of the well-formed lines, in order
RECURSIVE ExpectedItems(_)
ExpectedItems(ls) ==
    IF ls = <<>> THEN <<>>
    ELSE LET rest == ExpectedItems(Tail(ls))
         IN IF TrimNonEmpty(Head(ls)) /\ WellFormed(Head(ls))
            THEN <<[speaker |-> ItemOf(JSONparse(Head(ls))).speaker,
                    text |-> ItemOf(JSONparse(Head(ls))).text]>> \o rest
            ELSE rest

MalformedCount(ls) ==
    Len(SelectSeq(ls, LAMBDA l : TrimNonEmpty(l) /\ ~WellFormed(l)))

\* speaker and text of the agent messages displayed since the stream began
DisplayedItems ==
    LET shown == SelectSeq(SubSeq(messages, cycleBase + 1, Len(messages)),
                           IsAgentMessage)
    IN [j \in 1..Len(shown) |->
          [speaker |-> shown[j].agentId, text |-> shown[j].message]]

\* C10: when a stream has ended normally, the agent messages displayed in
\* the cycle are the well-formed lines of the body, one each and in order,
\* and the parse-error counter is the number of malformed lines.
C10_ExactlyWellFormed ==
    (outcome = "done" /\ call = "none") =>
        /\ DisplayedItems = ExpectedItems(CompleteLines(body))
        /\ parseErrorCount = MalformedCount(CompleteLines(body))

\* the lines of ls that are not blank (the ones the line loop counts)
NonBlankCount(ls) == Len(SelectSeq(ls, TrimNonEmpty))

\* the part of the body already delivered by the reader
Consumed == SubSeq(body, 1, Len(body) - Len(stream))

\* the step in which the per-line catch block counts a parse error
ParseFailureStep == parseErrorCount' > parseErrorCount

\* C11: a step in which a line fails to parse appends no synthetic error
\* message and does not end the cycle: the cycle goes on reading or pacing,
\* no line given to the line loop is skipped, and the rest of the stream is
\* still to be read; and a cycle whose stream was read to its end has
\* appended no synthetic error message, whatever failed to parse.
C11_ParseFailureIsLocal ==
    /\ [][ParseFailureStep =>
            /\ \A j \in (Len(messages) + 1)..Len(messages') :
                   IsAgentMessage(messages'[j])
            /\ SubSeq(messages', 1, Len(messages)) = messages
            /\ finished' = finished
            /\ call' \in {"read", "pace"}
            /\ lineCount' + NonBlankCount(lines') = NonBlankCount(handed')
            /\ Consumed' \o stream' = body]_vars
    /\ [](outcome = "done" /\ call = "none" =>
            /\ stream = <<>>
            /\ \A j \in (cycleBase + 1)..Len(messages) :
                   ~IsErrorMessage(messages[j]))

\* the first line failed to parse, a later chunk was read and its record
\* displayed, and the stream was read to its end
C11_Witness ==
    /\ outcome = "done"
    /\ call = "none"
    /\ body # <<>>
    /\ body[1] = "x"
    /\ parseErrorCount = 1
    /\ chunksRead = 2
    /\ Len(DisplayedItems) = 1
    /\ \A j \in 1..Len(messages) : ~IsErrorMessage(messages[j])

\* the value of a line is a record (not a number, string, boolean, array
\* or null, and not text that fails to decode)
IsRecord(line) == JSONparse(line).kind = "object"

\* the lines of ls that are not blank and are not a record
NonRecordCount(ls) ==
    Len(SelectSeq(ls, LAMBDA l : TrimNonEmpty(l) /\ ~IsRecord(l)))

\* C12: when a stream has been read to its end, every complete line that
\* is not a record (text that does not decode, or a value that is not a
\* record) has been counted as a parse error and has produced no message:
\* the counter is at least the number of such lines, and the messages of
\* the cycle are at most as many as the lines that are records.
C12_NonRecordIsParseError ==
    (outcome = "done" /\ call = "none") =>
        LET ls == CompleteLines(body)
        IN /\ parseErrorCount >= NonRecordCount(ls)
           /\ Len(DisplayedItems) <= NonBlankCount(ls) - NonRecordCount(ls)

\* the step in which the first message of a cycle is revealed
FirstRevealStep == lastMessageDisplayTime = 0 /\ lastMessageDisplayTime' # 0

\* C13: the shownAt values of the displayed messages, in list order, never
\* decrease (within a cycle and over the whole session); and the first
\* message of a cycle is revealed in the very step in which its line was
\* read, at that time, with no pacing timer in between.
C13_PacerMonotone ==
    /\ [](\A i \in 1..(Len(messages) - 1) :
             messages[i].shownAt <= messages[i + 1].shownAt)
    /\ [][FirstRevealStep =>
            /\ call = "read"
            /\ Len(messages') > Len(messages)
            /\ messages'[Len(messages) + 1].shownAt = now'
            /\ IsAgentMessage(messages'[Len(messages) + 1])]_vars

\* two cycles have displayed paced messages, with a message of the viewer
\* between them
C13_Witness ==
    /\ Len(requests) = 2
    /\ Len(messages) >= 4
    /\ \E i \in 2..(Len(messages) - 1) :
          /\ messages[i].agentId = "user"
          /\ IsAgentMessage(messages[i - 1])
          /\ IsAgentMessage(messages[i + 1])
          /\ messages[i - 1].shownAt < messages[i + 1].shownAt
    /\ \E i \in 1..(Len(messages) - 1) :
          /\ IsAgentMessage(messages[i]) /\ IsAgentMessage(messages[i + 1])
          /\ messages[i + 1].shownAt >= messages[i].shownAt + minInterval

\* the pacing target of a text of length L, as the claim states it
TargetOfLength(L) == 3500 + 5 * Min(L, 200)

\* the step in which the pacer starts to wait for an item
PaceStartStep == item' # NoItem /\ <<item, paceDue>> # <<item', paceDue'>>

\* the step in which an agent message is revealed after an earlier one of
\* the same cycle
LaterRevealStep ==
    /\ call \in {"read", "pace"}
    /\ lastMessageDisplayTime # 0
    /\ lastMessageDisplayTime' # lastMessageDisplayTime

HandedToPacer(line) ==
    TrimNonEmpty(line) /\ JSONparse(line).kind \in {"object", "scalar"}

\* speaker and text of the items the line loop hands to displayMessage for
\* the lines ls, in order
RECURSIVE PacerItems(_)
PacerItems(ls) ==
    IF ls = <<>> THEN <<>>
    ELSE LET rest == PacerItems(Tail(ls))
         IN IF HandedToPacer(Head(ls))
            THEN <<[speaker |-> ItemOf(JSONparse(Head(ls))).speaker,
                    text |-> ItemOf(JSONparse(Head(ls))).text]>> \o rest
            ELSE rest

\* C15: the pacer drops nothing and keeps the order: when the stream of a
\* cycle has been read to its end, the agent messages of the cycle are the
\* items that were handed to the pacer, each once and in the order of
\* their lines.
C15_PacerNeverDrops ==
    (outcome = "done" /\ call = "none") =>
        DisplayedItems = PacerItems(CompleteLines(body))

\* the agent messages displayed since the stream of the cycle began
CycleAgentMessages ==
    SelectSeq(SubSeq(messages, cycleBase + 1, Len(messages)), IsAgentMessage)

\* C16: the pacer's last-display time is unset when the stream of a cycle
\* begins; while the cycle runs it is either unset or the time of the last
\* agent message of this very cycle (never of an earlier cycle, never of a
\* user message); so the pacer never waits before the first message of a
\* cycle, which is revealed in the step in which its line is read.
C16_PacerPerCycle ==
    /\ [][call = "fetch" /\ call' = "read" => lastMessageDisplayTime' = 0]_vars
    /\ [](call \in {"read", "pace"} =>
            /\ (lastMessageDisplayTime = 0) <=> (CycleAgentMessages = <<>>)
            /\ lastMessageDisplayTime # 0 =>
                  lastMessageDisplayTime
                    = CycleAgentMessages[Len(CycleAgentMessages)].shownAt
            /\ call = "pace" => CycleAgentMessages # <<>>)
    /\ [][(call \in {"read", "pace"} /\ CycleAgentMessages = <<>>
            /\ CycleAgentMessages' # <<>>) =>
              /\ call = "read"
              /\ CycleAgentMessages'[1].shownAt = now']_vars

\* the first message of the second cycle was revealed less than the
\* shortest pacing interval after the last message of the first cycle
C16_Witness ==
    /\ Len(requests) = 2
    /\ cycleBase >= 1
    /\ Len(messages) > cycleBase
    /\ IsAgentMessage(messages[cycleBase])
    /\ IsAgentMessage(messages[cycleBase + 1])
    /\ messages[cycleBase + 1].shownAt - messages[cycleBase].shownAt < minInterval

\* the text after the last newline of b (the line not yet terminated)
Unterminated(b) == Split(b)[Len(Split(b))]

\* C17: however the body is cut into chunks, the lines given to the line
\* loop are the newline-terminated lines of what was delivered so far, in
\* order, and the buffer holds the unterminated rest; when the stream has
\* been read to its end they are the newline-terminated lines of the body.
C17_ChunkIndependence ==
    /\ call \in {"read", "pace"} =>
          /\ handed = CompleteLines(Consumed)
          /\ buffer = Unterminated(Consumed)
    /\ (outcome = "done" /\ call = "none") => handed = CompleteLines(body)

\* a chunk ended inside the second line: the first line was given to the
\* line loop and the beginning of the second is kept in the buffer
C17_Witness ==
    /\ call \in {"read", "pace"}
    /\ chunksRead = 1
    /\ Len(handed) = 1
    /\ buffer # <<>>
    /\ stream # <<>>
    /\ stream[1] # "NL"

\* C18: when the stream has been read to its end, what is left in the
\* buffer is the unterminated last line of the body, and it was neither
\* counted, nor displayed, nor taken for a parse error: the lines counted
\* are the newline-terminated ones that are not blank, and each of them
\* gave one message or one parse error.
C18_TailDiscarded ==
    (outcome = "done" /\ call = "none") =>
        /\ buffer = Unterminated(body)
        /\ lineCount = NonBlankCount(CompleteLines(body))
        /\ Len(DisplayedItems) + parseErrorCount = lineCount

\* the stream ended after a well-formed record without its newline: one
\* message (of the line before it) and no parse error
C18_Witness ==
    /\ outcome = "done"
    /\ call = "none"
    /\ buffer # <<>>
    /\ WellFormed(buffer)
    /\ Len(DisplayedItems) = 1
    /\ parseErrorCount = 0

\* the step in which a stream that delivered nothing reports its end
EmptyStreamEndStep ==
    /\ call = "read"
    /\ body = <<>>
    /\ finished' = finished + 1
    /\ outcome' = "done"

\* C19: the end of an empty stream appends nothing and the cycle cools
\* down like any other; after such a cycle the only messages added since
\* its stream began are the viewer's own.
C19_EmptyStreamValid ==
    /\ [][EmptyStreamEndStep => messages' = messages /\ CoolsDown]_vars
    /\ []((outcome = "done" /\ call = "none" /\ body = <<>>) =>
            \A j \in (cycleBase + 1)..Len(messages) :
                messages[j].agentId = "user")

\* the first cycle had an empty stream: nothing is displayed, and the
\* second request was issued after the cooling wait
C19_Witness ==
    /\ Len(requests) = 2
    /\ requests[2].prevOutcome = "done"
    /\ requests[2].start >= requests[1].start + FIXED_PERIOD
    /\ body = <<>>
    /\ messages = <<>>

\* the step in which a submission of the viewer is accepted
SendStep == sends' = sends + 1

\* C20: once the component is mounted a non-blank input can be submitted
\* in every state of the loop (requesting, streaming, pacing, cooling,
\* stopped); the submission appends, in that one step and at the current
\* time, exactly one message of the viewer and one context entry, both
\* with the submitted text, and it leaves the loop, the cycle in progress,
\* the pacer and the requests as they are.
C20_SendIsImmediate ==
    /\ []((loop # "idle" /\ InputNonBlank(inputMessage)) =>
            ENABLED handleSendMessage)
    /\ [][SendStep =>
            /\ AppendsOne
            /\ messages'[Len(messages')].agentId = "user"
            /\ messages'[Len(messages')].message = inputMessage
            /\ messages'[Len(messages')].shownAt = now
            /\ now' = now
            /\ Len(contextMemory') = Len(contextMemory) + 1
            /\ SubSeq(contextMemory', 1, Len(contextMemory)) = contextMemory
            /\ contextMemory'[Len(contextMemory')].text = inputMessage
            /\ UNCHANGED <<loopVars, call, item, paceDue,
                           lastMessageDisplayTime, lines, stream>>]_vars

\* a message was submitted while a pacing delay was pending: it is in the
\* list and in the context, and the pacer still waits
C20_Witness ==
    /\ call = "pace"
    /\ now < paceDue
    /\ sends = 1
    /\ messages[Len(messages)].agentId = "user"
    /\ messages[Len(messages)].message = "go"
    /\ messages[Len(messages)].shownAt = now
    /\ Len(contextMemory) = 1
    /\ contextMemory[1].text = "go"

\* a is an initial part of b
IsPrefix(a, b) == Len(a) <= Len(b) /\ SubSeq(b, 1, Len(a)) = a

\* C21: no step removes, reorders or changes an entry of the context: the
\* context after every step is an extension of the context before it (and
\* so of the context of every earlier state).
C21_ContextAppendOnly == [][IsPrefix(contextMemory, contextMemory')]_vars

\* two different entries were accumulated, and a request was issued after
\* the first of them: both are still there, in the order of submission
C21_Witness ==
    /\ Len(contextMemory) = 2
    /\ contextMemory[1].text # contextMemory[2].text
    /\ Len(requests) = 2
    /\ Len(requests[2].context) = 1
    /\ requests[2].context[1] = contextMemory[1]

\* C22: every step leaves the displayed messages as they are or adds
\* exactly one message at the end; all messages displayed before stay
\* unchanged and in place.
C22_MessagesAppendOnly == [][messages' = messages \/ AppendsOne]_vars

\* an agent message, a message of the viewer and the synthetic error
\* message are in the list, and a later cycle has added to it
C22_Witness ==
    /\ Len(requests) = 2
    /\ Len(messages) > cycleBase
    /\ cycleBase >= 3
    /\ \E i \in 1..cycleBase : IsAgentMessage(messages[i])
    /\ \E i \in 1..cycleBase : messages[i].agentId = "user"
    /\ \E i \in 1..cycleBase : IsErrorMessage(messages[i])

\* the messages of the viewer in the list
UserMessages == SelectSeq(messages, LAMBDA m : m.agentId = "user")

\* C23: the context holds one entry for each accepted submission of the
\* viewer and nothing else: a step that reveals an agent message or adds
\* the synthetic error message leaves the context unchanged, and the
\* entries are the texts of the viewer's messages, in order.
C23_OnlyUserEntries ==
    /\ [](/\ Len(contextMemory) = sends
          /\ Len(UserMessages) = sends
          /\ \A i \in 1..Len(contextMemory) :
                contextMemory[i].text = UserMessages[i].message)
    /\ [][(messages' # messages
            /\ messages'[Len(messages')].agentId # "user") =>
              contextMemory' = contextMemory]_vars

\* agent messages and the synthetic error message were displayed, and the
\* context holds the single entry of the viewer
C23_Witness ==
    /\ sends = 1
    /\ Len(contextMemory) = 1
    /\ \E i \in 1..Len(messages) : IsAgentMessage(messages[i])
    /\ \E i \in 1..Len(messages) : IsErrorMessage(messages[i])
    /\ Len(messages) >= 4

\* the line gives an item that is displayed: it is handed to the pacer and
\* its team is a label or absent
Displayable(line) == HandedToPacer(line) /\ JSONparse(line).team # NotAString

\* the newline-terminated lines of the body that give a displayed item
DisplayableLines == SelectSeq(CompleteLines(body), Displayable)

WordChars(label) ==
    IF label = Null THEN <<>>
    ELSE SelectSeq(label, LAMBDA c :
            \/ c \in LowerLetters \cup Digits \cup Hangul
            \/ \E i \in 1..26 : UpperLetters[i] = c)

\* c and d are the same character, or the same letter in different case
SameLetter(c, d) ==
    \/ c = d
    \/ \E i \in 1..26 : {c, d} = {UpperLetters[i], LowerOfUpper[i]}

\* x and y are equal but for the case of their letters
EqualIgnoringCase(x, y) ==
    Len(x) = Len(y) /\ \A i \in 1..Len(x) : SameLetter(x[i], y[i])

\* the labels differ only in letter case, whitespace or stripped characters
SameLabel(a, b) == EqualIgnoringCase(WordChars(a), WordChars(b))

LowerKiaTigers == <<"k","i","a"," ","t","i","g","e","r","s">>
UpperKiaTigers == <<"K","I","A","T","I","G","E","R","S">>

\* the label the viewer's message is resolved from
UserTeamName == OrElse(userTeam, OrElse(agentTeam, SAMSUNG))

\* C25: two labels that differ only in letter case, whitespace or stripped
\* characters resolve to the same team id or both to null; a team id that
\* is the result for some label resolves to itself; "Kia Tigers",
\* "kia tigers" and "KIATIGERS" all resolve to "kia"; and the message of
\* the viewer carries the team its label resolves to.
C25_ResolveInsensitive ==
    /\ SameLabel(userTeam, agentTeam) =>
          resolveTeamId(userTeam) = resolveTeamId(agentTeam)
    /\ \A l \in {userTeam, agentTeam} :
          resolveTeamId(l) # Null =>
             resolveTeamId(resolveTeamId(l)) = resolveTeamId(l)
    /\ resolveTeamId(KIA_TIGERS) = KIA
    /\ resolveTeamId(LowerKiaTigers) = KIA
    /\ resolveTeamId(UpperKiaTigers) = KIA
    /\ \A i \in 1..Len(messages) :
          (messages[i].agentId = "user"
             /\ resolveTeamId(UserTeamName) # Null) =>
               messages[i].team = resolveTeamId(UserTeamName)

\* the viewer's label is "Kia Tigers", the first agent's is "KIATIGERS",
\* and the viewer's message was displayed for the team "kia"
C25_Witness ==
    /\ userTeam = KIA_TIGERS
    /\ agentTeam = UpperKiaTigers
    /\ Len(messages) >= 1
    /\ messages[Len(messages)].agentId = "user"
    /\ messages[Len(messages)].team = KIA

\* the candidate keys of the roster, written out: id, name and short name
\* in lower case without blanks, in roster order
RosterKeys == <<
  [id |-> <<"s","a","m","s","u","n","g">>,
   keys |-> {<<"s","a","m","s","u","n","g">>, <<"h_sam","h_seong">>,
             <<"h_sam","h_seong","h_ra","h_i","h_on","h_jeu">>}],
  [id |-> <<"k","i","a">>,
   keys |-> {<<"k","i","a">>, <<"k","i","a","h_ta","h_i","h_geo","h_jeu">>}],
  [id |-> <<"l","g">>,
   keys |-> {<<"l","g">>, <<"l","g","h_teu","h_win","h_seu">>}],
  [id |-> <<"d","o","o","s","a","n">>,
   keys |-> {<<"d","o","o","s","a","n">>, <<"h_du","h_san">>,
             <<"h_du","h_san","h_be","h_eo","h_seu">>}],
  [id |-> <<"s","s","g">>,
   keys |-> {<<"s","s","g">>, <<"s","s","g","h_raen","h_deo","h_seu">>}],
  [id |-> <<"k","t">>,
   keys |-> {<<"k","t">>, <<"k","t","w","i","z">>}],
  [id |-> <<"n","c">>,
   keys |-> {<<"n","c">>, <<"n","c","h_da","h_i","h_no","h_seu">>}],
  [id |-> <<"h","a","n","w","h","a">>,
   keys |-> {<<"h","a","n","w","h","a">>, <<"h_han","h_hwa">>,
             <<"h_han","h_hwa","h_i","h_geul","h_seu">>}],
  [id |-> <<"l","o","t","t","e">>,
   keys |-> {<<"l","o","t","t","e">>, <<"h_rot","h_de">>,
             <<"h_rot","h_de","h_ja","h_i","h_eon","h_jeu">>}],
  [id |-> <<"k","i","w","o","o","m">>,
   keys |-> {<<"k","i","w","o","o","m">>, <<"h_ki","h_um">>,
             <<"h_ki","h_um","h_hi","h_eo","h_ro","h_jeu">>}]
>>

\* the key w (a label without its stripped characters) is matched by the
\* candidate key k: equal, equal without a trailing "s", or k is the
\* beginning or the end of w (letter case apart)
KeyMatches(w, k) ==
    \/ EqualIgnoringCase(w, k)
    \/ EqualIgnoringCase(w, k \o <<"s">>)
    \/ Len(k) <= Len(w) /\ EqualIgnoringCase(SubSeq(w, 1, Len(k)), k)
    \/ /\ Len(k) <= Len(w)
       /\ EqualIgnoringCase(SubSeq(w, Len(w) - Len(k) + 1, Len(w)), k)

\* the roster entries that match the key w
RosterHits(w) ==
    { i \in 1..Len(RosterKeys) : \E k \in RosterKeys[i].keys : KeyMatches(w, k) }

\* what the resolver is to return for the label
RosterResolve(label) ==
    LET w == WordChars(label)
        hits == IF w = <<>> THEN {} ELSE RosterHits(w)
    IN  IF hits = {} THEN Null
        ELSE RosterKeys[CHOOSE i \in hits : \A j \in hits : i <= j].id

\* C26: for every label, resolve returns null when the key of the label is
\* empty or no roster entry matches it, and otherwise the id of the first
\* roster entry one of whose candidate keys matches the key.
C26_ResolveFirstMatch ==
    /\ resolveTeamId(userTeam) = RosterResolve(userTeam)
    /\ resolveTeamId(agentTeam) = RosterResolve(agentTeam)

\* the key "kiasamsung" begins with a key of kia and ends with a key of
\* samsung: the viewer's message carries samsung, the first in the roster
C26_Witness ==
    /\ userTeam = <<"k","i","a","s","a","m","s","u","n","g">>
    /\ RosterHits(WordChars(userTeam)) = {1, 2}
    /\ Len(messages) >= 1
    /\ messages[Len(messages)].agentId = "user"
    /\ messages[Len(messages)].team = SAMSUNG

\* the team a revealed item with this label is to be shown with
ChosenTeam(label) ==
    IF RosterResolve(label) # Null THEN RosterResolve(label)
    ELSE IF homeTeamId # Null THEN homeTeamId
    ELSE IF awayTeamId # Null THEN awayTeamId
    ELSE <<"s","a","m","s","u","n","g">>

\* C27: when a stream has been read to its end, the message of every
\* displayed line has the id its team label resolves to, or else the home
\* team id if set, or else the away team id if set, or else "samsung"; and
\* every agent message is marked isHome exactly when its team is the home
\* team id.
C27_TeamFallback ==
    /\ \A i \in 1..Len(messages) :
          IsAgentMessage(messages[i]) =>
             (messages[i].isHome <=> messages[i].team = homeTeamId)
    /\ (outcome = "done" /\ call = "none") =>
          /\ Len(CycleAgentMessages) = Len(DisplayableLines)
          /\ \A j \in 1..Len(DisplayableLines) :
                CycleAgentMessages[j].team
                  = ChosenTeam(ItemOf(JSONparse(DisplayableLines[j])).team)

\* a record whose label "zz" is no team has been shown with the home team
C27_Witness ==
    /\ outcome = "done"
    /\ call = "none"
    /\ homeTeamId = NC
    /\ awayTeamId = LG
    /\ Len(DisplayableLines) = 2
    /\ JSONparse(DisplayableLines[2]).team = <<"z","z">>
    /\ RosterResolve(<<"z","z">>) = Null
    /\ CycleAgentMessages[2].team = NC
    /\ CycleAgentMessages[2].isHome

\* the stored item is missing, empty or not parseable
Unusable(str) == str \in {Absent, "", Unparseable}

\* the step appends the synthetic error message
ErrorAppended ==
    /\ Len(messages') > Len(messages)
    /\ IsErrorMessage(messages'[Len(messages')])

C29_RequestIsBounded ==
    \A n \in 1..MaxRequests :
        (requestCount = n /\ finished < n /\ call \in {"fetch", "read"})
            ~> (finished >= n)

\* the state of the loop controller
Phase ==
    CASE loop = "idle" -> "Idle"
      [] loop = "stopped" -> "Stopped"
      [] call = "fetch" -> "Requesting"
      [] call \in {"read", "pace"} -> "Streaming"
      [] OTHER -> "Cooling"

\* the step issues a request
IssuesRequest == Len(requests') = Len(requests) + 1

\* the period of the running request is over at the end of the step
PeriodOver == now' - lastRequestStartTime >= FIXED_PERIOD

\* the cycle in flight ends in the step
CycleEnds == finished' = finished + 1

\* the step of the controller is one of the specified transitions (a
\* cooling of no length is passed through within the step that ends the
\* cycle)
SpecifiedTransition ==
    CASE Phase = "Idle" ->
            Phase' = "Requesting" /\ now' = now /\ IssuesRequest
      [] Phase = "Requesting" ->
            \/ Phase' = "Requesting" /\ requests' = requests /\ ~CycleEnds
            \/ Phase' = "Streaming" /\ requests' = requests /\ ~CycleEnds
            \/ Phase' = "Cooling" /\ CycleEnds /\ outcome' = "fetchfail"
                 /\ ~PeriodOver /\ requests' = requests
            \/ Phase' = "Requesting" /\ CycleEnds /\ outcome' = "fetchfail"
                 /\ PeriodOver /\ isActive /\ IssuesRequest
            \/ Phase' = "Stopped" /\ CycleEnds /\ PeriodOver /\ ~isActive
                 /\ requests' = requests
      [] Phase = "Streaming" ->
            \/ Phase' = "Streaming" /\ requests' = requests /\ ~CycleEnds
            \/ Phase' = "Cooling" /\ CycleEnds
                 /\ outcome' \in {"done", "readerror"}
                 /\ ~PeriodOver /\ requests' = requests
            \/ Phase' = "Requesting" /\ CycleEnds
                 /\ outcome' \in {"done", "readerror"}
                 /\ PeriodOver /\ isActive /\ IssuesRequest
            \/ Phase' = "Stopped" /\ CycleEnds /\ PeriodOver /\ ~isActive
                 /\ requests' = requests
      [] Phase = "Cooling" ->
            \/ Phase' = "Cooling" /\ requests' = requests /\ now' = now
            \/ Phase' = "Requesting" /\ isActive /\ now' >= coolDue
                 /\ PeriodOver /\ IssuesRequest
            \/ Phase' = "Stopped" /\ ~isActive /\ now' >= coolDue
                 /\ requests' = requests
      [] OTHER ->
            Phase' = "Stopped" /\ requests' = requests

\* C30: the controller takes only the specified transitions: from Idle to
\* Requesting at once, from Requesting to Streaming, from Requesting to
\* Cooling on a failure, from Streaming to Cooling on the end of the stream
\* or a read error, from Cooling to Requesting when the period is over and
\* the session is active, and to Stopped only when the session is
\* cancelled; Stopped is final; and the cycle number is the number of
\* requests issued, growing by one with each.
C30_ControllerTransitions ==
    /\ [][SpecifiedTransition]_vars
    /\ [][IF IssuesRequest
          THEN /\ requestCount' = requestCount + 1
               /\ requests'[Len(requests')].id = requestCount'
               /\ requests'[Len(requests')].start = now'
               /\ SubSeq(requests', 1, Len(requests)) = requests
          ELSE requests' = requests /\ requestCount' = requestCount]_vars
    /\ [](/\ requestCount = Len(requests)
          /\ Phase \in {"Requesting", "Streaming"} => loop = "await"
          /\ Phase = "Cooling" => loop = "cool" /\ call = "none"
          /\ Phase \in {"Idle", "Stopped"} => call = "none"
          /\ Phase = "Idle" => requestCount = 0 /\ now = StartTime
          /\ Len(requests) >= 1 => requests[1].start = StartTime)

\* the first request failed, the second followed when the cooling wait was
\* over, its stream was read to the end, and the controller cools again
C30_Witness ==
    /\ Phase = "Cooling"
    /\ requestCount = 2
    /\ requests[1].start = StartTime
    /\ requests[2].prevOutcome = "fetchfail"
    /\ requests[2].start = StartTime + FIXED_PERIOD
    /\ outcome = "done"
    /\ finished = 2
    /\ IsAgentMessage(messages[Len(messages)])

\* the lines of the cycle that the line loop has taken up so far
TakenUp == SubSeq(handed, 1, Len(handed) - Len(lines))

\* the number of agent messages revealed
AgentCount == Len(SelectSeq(messages, IsAgentMessage))

\* C31: within a cycle the lines are processed one after the other: an item
\* waits for its reveal exactly while a pacing delay is pending, and it is
\* the item of the last line taken up; while it waits no further line is
\* taken up, counted or parsed and the delay is not replaced; and a chunk is
\* read from the stream only when no line of the chunks before is left and
\* no item waits.
C31_LinesInSequence ==
    /\ [](/\ (call = "pace") <=> (item # NoItem)
          /\ call \in {"read", "pace"} =>
                /\ Len(lines) <= Len(handed)
                /\ lineCount = NonBlankCount(TakenUp)
          /\ call = "pace" =>
                /\ TakenUp # <<>>
                /\ item = ItemOf(JSONparse(TakenUp[Len(TakenUp)]))
          /\ call = "read" => lines = <<>>)
    /\ [][call = "pace" /\ AgentCount' = AgentCount
            => UNCHANGED <<call, item, paceDue, lines, lineCount,
                           parseErrorCount, handed, stream, chunksRead,
                           buffer>>]_vars
    /\ [][chunksRead' > chunksRead \/ Len(handed') > Len(handed)
            => call = "read" /\ lines = <<>> /\ item = NoItem]_vars

\* the second record of a chunk of three waits for its reveal while the
\* third has not been taken up, and the viewer has written meanwhile
C31_Witness ==
    /\ call = "pace"
    /\ Len(handed) = 3
    /\ Len(lines) = 1
    /\ lineCount = 2
    /\ AgentCount = 1
    /\ Len(messages) = 2
    /\ now < paceDue

\* the ids of the roster
RosterIds == { TEAMS[i].id : i \in 1..Len(TEAMS) }

\* C32: every message of the displayed sequence, the synthetic error
\* message and the viewer's messages included, carries the id of a team of
\* the roster, and is marked isHome exactly when its team is the home team
\* id.
C32_CanonicalTeams ==
    \A i \in 1..Len(messages) :
        /\ messages[i].team \in RosterIds
        /\ messages[i].isHome <=> (messages[i].team = homeTeamId)

\* C33: within one cycle any two consecutive agent reveals are at least
\* 3500 ms apart, and a pending pacing wait is never longer than 4500 ms.
C33_RevealSpacing ==
    /\ \A j \in 2..Len(CycleAgentMessages) :
          CycleAgentMessages[j].shownAt
             >= CycleAgentMessages[j - 1].shownAt + 3500
    /\ call = "pace" => paceDue - now <= 4500

\* the step reveals the item that waited for its pacing delay
PendingRevealStep == call = "pace" /\ AgentCount' = AgentCount + 1

\* C34: a submission of the viewer made while a pacing delay is pending
\* appends the viewer's message and leaves the waiting item, the time its
\* delay ends, the pacer's last-display time, the start time of the cycle,
\* the counters and the lines as they are; the waiting item is then
\* revealed at the end of the list, so after every message the viewer sent
\* meanwhile, no earlier than its delay ends and with the last-display
\* time set to its own reveal.
C34_SendDuringPacing ==
    /\ [][SendStep /\ call = "pace" =>
            /\ messages' = Append(messages, UserMessage(inputMessage, now))
            /\ UNCHANGED <<call, item, paceDue, lastMessageDisplayTime,
                           requestStartTime, lineCount, parseErrorCount,
                           lines, buffer, stream, chunksRead, now>>]_vars
    /\ [][PendingRevealStep =>
            /\ AppendsOne
            /\ messages'[Len(messages')].agentId = item.speaker
            /\ messages'[Len(messages')].message = item.text
            /\ messages'[Len(messages')].shownAt = now'
            /\ now' >= paceDue
            /\ lastMessageDisplayTime' = now']_vars
    /\ [](call = "pace" =>
            /\ CycleAgentMessages # <<>>
            /\ lastMessageDisplayTime
                 = CycleAgentMessages[Len(CycleAgentMessages)].shownAt
            /\ paceDue = lastMessageDisplayTime + TargetOfLength(Len(item.text)))

\* the viewer wrote while the long text waited: the viewer's message
\* stands before it, and the long text came a full longest interval after
\* the first message, as without the submission
C34_Witness ==
    /\ Len(messages) >= 3
    /\ IsAgentMessage(messages[1])
    /\ messages[2].agentId = "user"
    /\ messages[2].shownAt = messages[1].shownAt
    /\ IsAgentMessage(messages[3])
    /\ messages[3].message = LongText
    /\ messages[3].shownAt = messages[1].shownAt + maxInterval

\* C35: the generating flag is true exactly while the cycle is Requesting
\* or Streaming: it is set by the step that issues a request, it is false
\* after every step that ends a cycle without issuing the next request,
\* whatever the way the cycle ended, and it is false while the controller is
\* Idle, Cooling or Stopped.
C35_GeneratingFlag ==
    /\ [](isGenerating <=> Phase \in {"Requesting", "Streaming"})
    /\ [][IssuesRequest => isGenerating']_vars
    /\ [][CycleEnds /\ requests' = requests =>
            /\ outcome' \in {"done", "fetchfail", "readerror"}
            /\ isGenerating
            /\ ~isGenerating']_vars

\* the controller cools after a stream that broke off, the flag reset
C35_Witness ==
    /\ Phase = "Cooling"
    /\ outcome = "readerror"
    /\ finished = 1
    /\ isActive
    /\ ~isGenerating
    /\ AgentCount >= 1

\* C36: the ids of the messages of the displayed sequence are pairwise
\* distinct.
C36_DistinctIds ==
    \A i, j \in 1..Len(messages) : i # j => messages[i].id # messages[j].id

\* C37: the line counter and the parse-error counter are zero when the
\* stream of a cycle begins; while the cycle runs the line counter is the
\* number of non-blank complete lines taken up so far in this cycle, and
\* the parse-error counter is not greater; and at a normal end of the
\* stream the line counter is the number of non-blank complete lines of the
\* body and the cycle has displayed line counter minus parse-error counter
\* agent messages.
C37_CountersPerCycle ==
    /\ [][call = "fetch" /\ call' = "read" =>
            lineCount' = 0 /\ parseErrorCount' = 0]_vars
    /\ [](call \in {"read", "pace"} =>
            /\ lineCount = NonBlankCount(TakenUp)
            /\ parseErrorCount <= lineCount
            /\ Len(CycleAgentMessages) + parseErrorCount
                  = lineCount - (IF call = "pace" THEN 1 ELSE 0))
    /\ []((outcome = "done" /\ call = "none") =>
            /\ lineCount = NonBlankCount(CompleteLines(body))
            /\ Len(CycleAgentMessages) = lineCount - parseErrorCount)

\* the second cycle has ended normally after a cycle that had displayed
\* messages: three lines, one parse error, two messages
C37_Witness ==
    /\ requestCount = 2
    /\ finished = 2
    /\ outcome = "done"
    /\ requests[2].prevOutcome = "done"
    /\ cycleBase >= 2
    /\ lineCount = 3
    /\ parseErrorCount = 1
    /\ Len(CycleAgentMessages) = 2

\* the step in which an empty or blank input is submitted
BlankSubmitStep == attempts' = attempts + 1

\* C38: the submission of an input that is empty or only whitespace leaves
\* the displayed sequence, the context and the input field as they are
\* (and with them the loop and the cycle in progress); only an input with
\* a character that is not whitespace is accepted.
C38_BlankSubmitIsNoOp ==
    /\ [][BlankSubmitStep =>
            /\ inputMessage \in BlankInputs
            /\ UNCHANGED <<messages, contextMemory, inputMessage, sends,
                           closureMemory, loopVars, callVars, now>>]_vars
    /\ [][SendStep => inputMessage \notin BlankInputs]_vars
    /\ [](Len(UserMessages) = sends /\ Len(contextMemory) = sends)

\* two blanks were submitted while an item waited for its reveal: the
\* blanks are still in the input field and nothing was recorded
C38_Witness ==
    /\ attempts >= 1
    /\ inputMessage = "  "
    /\ call = "pace"
    /\ sends = 0
    /\ contextMemory = <<>>
    /\ Len(messages) = 1
====
